---- MODULE Spec2Model ----
(***************************************************************************)
(* The attach session of single_cell_tools/attach_to_notebook.py (main,     *)
(* lines 326-401) as a state machine, together with the pure helpers it     *)
(* calls (_process_stream).  Positions of main are named after the source   *)
(* line the control is about to execute.                                    *)
(***************************************************************************)
EXTENDS Integers, Sequences, FiniteSets, TLC

VARIABLES
    pc,              \* position of main: "L331" .. "L401", "left"
    kernel_state,    \* main: kernel_state
    total_cells,     \* main: total_cells
    cells_executed,  \* main: cells_executed
    stream_buf,      \* main: stream_buf (a string, as a sequence of characters)
    msg,             \* main: msg, the last message returned by get_iopub_msg
    sigtstp,         \* the installed SIGTSTP handler: "old" or "detach"
    channels,        \* client channels: "none", "running", "stopped"
    control_out,     \* messages sent on client.control_channel
    exc,             \* the exception propagating out of the try statement
    stops,           \* observation: number of stop_channels calls
    warnings,        \* observation: number of "could not send interrupt" warnings
    received,        \* observation: number of messages returned by get_iopub_msg
    seeded,          \* observation: cells_executed as seeded at attach time
    max_seen,        \* observation: highest execution_count of an execute_input
    ended_by,        \* observation: what ended the receive loop first
    sig_log,         \* observation: the signals delivered, <<signal, zone>>
    last_call,       \* observation: the last _process_stream call and its result
    errors,          \* observation: number of error messages dispatched
    prev_call,       \* observation: the _process_stream call before last_call
    bar,             \* observation: the cells of the last _make_status_bar
    server_files,    \* _find_kernel_connection_file: the globbed server files
    located,         \* _find_kernel_connection_file: its outcome
    notebook,        \* the persisted document read by the history functions
    history,         \* the outcomes of the history functions at attach time
    disk,            \* compress_h5ad: the files, by path
    job              \* compress_h5ad: the arguments and locals of its main

(* The variables the session leaves alone outside the dispatch. *)
extra == <<errors, prev_call, bar, server_files, located, notebook, history,
           disk, job>>

vars == <<pc, kernel_state, total_cells, cells_executed, stream_buf, msg, sigtstp,
          channels, control_out, exc, stops, warnings, received, seeded, max_seen,
          ended_by, sig_log, last_call, extra>>

-----------------------------------------------------------------------------
(* Bounds of the model. *)
MaxEvents == 2
MaxSignals == 2
MaxEc == 2
MaxTotal == 1
MaxBufLen == 2
MaxChunkLen == 2
MaxTextLen == 4

-----------------------------------------------------------------------------
(* Strings: sequences over two ordinary characters and the two terminators. *)
CR == "CR"
LF == "LF"
Chars == {"a", "b", CR, LF}

SeqsUpTo(S, n) == UNION {[1..k -> S] : k \in 0..n}

Bufs == SeqsUpTo(Chars, MaxBufLen)

Chunks == SeqsUpTo(Chars, MaxChunkLen)

(* The chunks _process_stream is studied on when taken on its own. *)
Texts == SeqsUpTo(Chars, MaxTextLen)

NoTerm(s) == \A k \in 1..Len(s) : s[k] # CR /\ s[k] # LF

Max(a, b) == IF a >= b THEN a ELSE b

-----------------------------------------------------------------------------
(* _process_stream: the loop of lines 252-268 over combined = buf + text.    *)
RECURSIVE ScanNoOverwrite(_, _, _, _)
ScanNoOverwrite(combined, i, current, completed) ==
    IF i > Len(combined) THEN <<current, completed>>
    ELSE LET ch == combined[i] IN
         IF ch = CR
         THEN IF i + 1 <= Len(combined) /\ combined[i + 1] = LF
              THEN ScanNoOverwrite(combined, i + 2, <<>>,
                                   Append(completed, Append(current, LF)))
              ELSE ScanNoOverwrite(combined, i + 1, Append(current, ch), completed)
         ELSE IF ch = LF
         THEN ScanNoOverwrite(combined, i + 1, <<>>,
                              Append(completed, Append(current, LF)))
         ELSE ScanNoOverwrite(combined, i + 1, Append(current, ch), completed)

RECURSIVE ScanCrLfSeparate(_, _, _, _)
ScanCrLfSeparate(combined, i, current, completed) ==
    IF i > Len(combined) THEN <<current, completed>>
    ELSE LET ch == combined[i] IN
         IF ch = CR
         THEN ScanCrLfSeparate(combined, i + 1, <<>>, completed)
         ELSE IF ch = LF
         THEN ScanCrLfSeparate(combined, i + 1, <<>>,
                               Append(completed, Append(current, LF)))
         ELSE ScanCrLfSeparate(combined, i + 1, Append(current, ch), completed)

RECURSIVE Scan(_, _, _, _)
Scan(combined, i, current, completed) ==
    IF i > Len(combined) THEN <<current, completed>>
    ELSE LET ch == combined[i] IN
         IF ch = CR
         THEN IF i + 1 <= Len(combined) /\ combined[i + 1] = LF
              THEN Scan(combined, i + 2, <<>>, Append(completed, Append(current, LF)))
              ELSE Scan(combined, i + 1, <<>>, completed)
         ELSE IF ch = LF
         THEN Scan(combined, i + 1, <<>>, Append(completed, Append(current, LF)))
         ELSE Scan(combined, i + 1, Append(current, ch), completed)

ProcessStreamDropsBuf(buf, text) == Scan(text, 1, <<>>, <<>>)

_process_stream(buf, text) == Scan(buf \o text, 1, <<>>, <<>>)

-----------------------------------------------------------------------------
(* Values of the session. *)
Absent == "absent"

States == {"starting", "idle", "busy", "dead"}

KeyboardInterrupt == "KeyboardInterrupt"

DetachOnly == "_DetachOnly"

OtherException == "Exception"

NoException == "none"

(* Message kinds the dispatcher tells apart (lines 357-384) and comm_close. *)
PlainTypes == {"execute_result", "display_data", "error", "clear_output", "comm_close"}

Msg(ty, st, ec, tx) ==
    [msg_type |-> ty, execution_state |-> st, execution_count |-> ec, text |-> tx]

NoMsg == Msg("none", Absent, {}, <<>>)

(* content["execution_count"]: missing/None is {}, the value n is {n}. *)
ExecCounts == {{}} \cup {{n} : n \in 0..MaxEc}

Messages ==
    {Msg("status", st, {}, <<>>) : st \in States \cup {Absent}}
    \cup {Msg("execute_input", Absent, ec, <<>>) : ec \in ExecCounts}
    \cup {Msg("stream", Absent, {}, tx) : tx \in Chunks}
    \cup {Msg(ty, Absent, {}, <<>>) : ty \in PlainTypes}

InterruptRequest == [msg_type |-> "interrupt_request", content |-> {}]

NoCall == [called |-> FALSE, buf |-> <<>>, text |-> <<>>, new_buf |-> <<>>,
           completed |-> <<>>]

Call(buf, text) ==
    LET r == _process_stream(buf, text)
    IN  [called |-> TRUE, buf |-> buf, text |-> text, new_buf |-> r[1],
         completed |-> r[2]]

-----------------------------------------------------------------------------
(* Positions of main, grouped by the try statement of lines 345-401. *)
PreTry == {"L331", "L333", "L337"}

TryBody == {"L346", "L353", "L354"}

Handlers == {"L389", "L391", "L394", "L397"}

Finally == {"L400", "L401"}

InMain == PreTry \cup TryBody \cup Handlers \cup Finally

Zone(p) ==
    IF p \in PreTry THEN "pre"
    ELSE IF p \in TryBody THEN "body"
    ELSE IF p \in Handlers THEN "handler"
    ELSE "finally"

(* Where control goes when exception e is raised at position p. *)
CatchNoFinally(p, e) ==
    IF p \in TryBody
    THEN IF e = KeyboardInterrupt THEN "L389"
         ELSE IF e = DetachOnly THEN "L397"
         ELSE "L400"
    ELSE IF p = "L391" /\ e # KeyboardInterrupt THEN "L394"
    ELSE "left"

CatchDetachAsInterrupt(p, e) ==
    IF p \in PreTry THEN "left"
    ELSE IF p \in TryBody
    THEN IF e = KeyboardInterrupt \/ e = DetachOnly THEN "L389"
         ELSE "L400"
    ELSE IF p = "L391"
    THEN IF e # KeyboardInterrupt THEN "L394" ELSE "L400"
    ELSE IF p \in Handlers THEN "L400"
    ELSE "left"

CatchInterruptInFinally(p, e) ==
    IF p \in PreTry THEN "left"
    ELSE IF e = KeyboardInterrupt THEN "L389"
    ELSE IF p \in TryBody
    THEN IF e = DetachOnly THEN "L397" ELSE "L400"
    ELSE IF p = "L391" THEN "L394"
    ELSE IF p \in Handlers THEN "L400"
    ELSE "left"

CatchSendFailureFatal(p, e) ==
    IF p \in PreTry THEN "left"
    ELSE IF p \in TryBody
    THEN IF e = KeyboardInterrupt THEN "L389"
         ELSE IF e = DetachOnly THEN "L397"
         ELSE "L400"
    ELSE IF p \in Handlers THEN "L400"
    ELSE "left"

Catch(p, e) ==
    IF p \in PreTry THEN "left"
    ELSE IF p \in TryBody
    THEN IF e = KeyboardInterrupt THEN "L389"
         ELSE IF e = DetachOnly THEN "L397"
         ELSE "L400"
    ELSE IF p = "L391"
    THEN IF e # KeyboardInterrupt THEN "L394" ELSE "L400"
    ELSE IF p \in Handlers THEN "L400"
    ELSE "left"

(* True when the exception raised at p is caught by an except clause. *)
Caught(p, e) == Catch(p, e) \in {"L389", "L397", "L394"}

(* Lines 316-319: the seeded counter. *)
SeedExecuted(ks, max_ec) == IF ks = "busy" /\ max_ec > 0 THEN max_ec + 1 ELSE max_ec

(* Line 358: content.get("execution_state", kernel_state). *)
StatusState(st, ks) == IF st = Absent THEN ks ELSE st

(* Lines 359-361 and 386: return on "dead", else back to the receive. *)
AfterStatusNoReturn(ks) == "L353"

AfterStatus(ks) == IF ks = "dead" THEN "L400" ELSE "L353"

(* Line 365: content.get("execution_count") or 0. *)
OrZero(ec) == IF ec = {} THEN 0 ELSE CHOOSE n \in ec : TRUE

(* Line 366: cells_executed = max(cells_executed, ec). *)
BumpExecutedAssign(ce, ec) == ec

BumpExecuted(ce, ec) == Max(ce, ec)

-----------------------------------------------------------------------------
(* The variables of the other functions while they are not under study.     *)
NoBar == [built |-> FALSE, filled |-> 0, unfilled |-> 0]

(* What _find_kernel_connection_file returned: None, or the connection file  *)
(* of the kernel of session `session` of server file `server`, and a state.  *)
NotCalled == [called |-> FALSE, found |-> FALSE, server |-> 0, session |-> 0, state |-> "idle"]
None == [called |-> TRUE, found |-> FALSE, server |-> 0, session |-> 0, state |-> "idle"]

Idle ==
    /\ errors = 0
    /\ prev_call = NoCall
    /\ bar = NoBar
    /\ server_files = <<>>
    /\ located = NotCalled
    /\ notebook = "unset"
    /\ history = "unset"
    /\ disk = <<>>
    /\ job = <<>>

(* The state at line 326: discovery has returned (connection_file,           *)
(* kernel_state) and _notebook_cell_stats has seeded the counters.           *)
Init ==
    /\ pc = "L331"
    /\ kernel_state \in States
    /\ total_cells \in 0..MaxTotal
    /\ \E max_ec \in 0..MaxEc :
          /\ (total_cells = 0 => max_ec = 0)
          /\ cells_executed = SeedExecuted(kernel_state, max_ec)
    /\ seeded = cells_executed
    /\ stream_buf = <<>>
    /\ msg = NoMsg
    /\ sigtstp = "old"
    /\ channels = "none"
    /\ control_out = <<>>
    /\ exc = NoException
    /\ stops = 0
    /\ warnings = 0
    /\ received = 0
    /\ max_seen = 0
    /\ ended_by = "none"
    /\ sig_log = <<>>
    /\ last_call = NoCall
    /\ Idle

(* Exception e raised at the current position: lines 345, 388-401.           *)
Raise(e) ==
    /\ pc' = Catch(pc, e)
    /\ exc' = IF Caught(pc, e) THEN NoException ELSE e
    /\ ended_by' = IF ended_by = "none" /\ pc \in PreTry \cup TryBody
                   THEN e ELSE ended_by
    /\ msg' = IF pc \in TryBody THEN NoMsg ELSE msg
    /\ UNCHANGED <<kernel_state, total_cells, cells_executed, stream_buf,
                   sigtstp, channels, control_out, stops, warnings, received,
                   seeded, max_seen, last_call>>
    /\ UNCHANGED extra

(* Line 331: signal.signal(SIGTSTP, ...). *)
InstallHandler ==
    /\ pc = "L331"
    /\ sigtstp' = "detach"
    /\ pc' = "L333"
    /\ UNCHANGED <<kernel_state, total_cells, cells_executed, stream_buf, msg,
                   channels, control_out, exc, stops, warnings, received, seeded,
                   max_seen, ended_by, sig_log, last_call>>
    /\ UNCHANGED extra

(* Lines 333-335: the client is built and its channels are started. *)
StartChannels ==
    /\ pc = "L333"
    /\ channels' = "running"
    /\ pc' = "L337"
    /\ UNCHANGED <<kernel_state, total_cells, cells_executed, stream_buf, msg,
                   sigtstp, control_out, exc, stops, warnings, received, seeded,
                   max_seen, ended_by, sig_log, last_call>>
    /\ UNCHANGED extra

(* Lines 337-345: stream_buf = "", _live_renderable defined, try entered. *)
EnterTry ==
    /\ pc = "L337"
    /\ stream_buf' = <<>>
    /\ pc' = "L346"
    /\ UNCHANGED <<kernel_state, total_cells, cells_executed, msg, sigtstp,
                   channels, control_out, exc, stops, warnings, received, seeded,
                   max_seen, ended_by, sig_log, last_call>>
    /\ UNCHANGED extra

(* Lines 346-352: the Live display is entered and the loop begins. *)
EnterLive ==
    /\ pc = "L346"
    /\ pc' = "L353"
    /\ UNCHANGED <<kernel_state, total_cells, cells_executed, stream_buf, msg,
                   sigtstp, channels, control_out, exc, stops, warnings, received,
                   seeded, max_seen, ended_by, sig_log, last_call>>
    /\ UNCHANGED extra

(* Line 353: get_iopub_msg returns the next message of the channel. *)
Receive ==
    /\ pc = "L353"
    /\ received < MaxEvents
    /\ \E m \in Messages :
          /\ (m.msg_type = "stream" => Len(stream_buf) <= MaxBufLen)
          /\ msg' = m
    /\ received' = received + 1
    /\ pc' = "L354"
    /\ UNCHANGED <<kernel_state, total_cells, cells_executed, stream_buf, sigtstp,
                   channels, control_out, exc, stops, warnings, ended_by, seeded,
                   max_seen, sig_log, last_call>>
    /\ UNCHANGED extra

(* Lines 357-384, variable by variable: what one dispatched message does.  *)
KernelStateAfter(m, ks) ==
    IF m.msg_type = "status" THEN StatusState(m.execution_state, ks) ELSE ks

ExecutedAfterClearResets(m, ce) ==
    IF m.msg_type = "execute_input"
    THEN BumpExecuted(ce, OrZero(m.execution_count))
    ELSE IF m.msg_type = "clear_output" THEN 0 ELSE ce

ExecutedAfter(m, ce) ==
    IF m.msg_type = "execute_input"
    THEN BumpExecuted(ce, OrZero(m.execution_count))
    ELSE ce

StreamBufAfter(m, buf) ==
    IF m.msg_type = "stream" THEN _process_stream(buf, m.text)[1] ELSE buf

(* Where control goes after the message, ks being the new kernel_state.    *)
PcAfterErrorReturns(m, ks) ==
    IF m.msg_type \in {"status", "error"} /\ (m.msg_type = "error" \/ ks = "dead")
    THEN "L400" ELSE "L353"

PcAfter(m, ks) == IF m.msg_type = "status" THEN AfterStatus(ks) ELSE "L353"

(* Lines 354-386: the message is dispatched on msg_type, then live.update.   *)
Dispatch ==
    /\ pc = "L354"
    /\ kernel_state' = KernelStateAfter(msg, kernel_state)
    /\ cells_executed' = ExecutedAfter(msg, cells_executed)
    /\ stream_buf' = StreamBufAfter(msg, stream_buf)
    /\ pc' = PcAfter(msg, kernel_state')
    /\ max_seen' = IF msg.msg_type = "execute_input"
                   THEN Max(max_seen, OrZero(msg.execution_count))
                   ELSE max_seen
    /\ errors' = IF msg.msg_type = "error" THEN errors + 1 ELSE errors
    /\ ended_by' = IF pc' = "L400" THEN "dead" ELSE ended_by
    /\ UNCHANGED <<msg, total_cells, sigtstp, channels, control_out, exc, stops,
                   warnings, received, seeded, sig_log, last_call, prev_call, bar,
                   server_files, located, notebook, history, disk, job>>

(* A library call of lines 333-335, 346, 353 or 354-386 raises an Exception. *)
Fail ==
    /\ pc \in {"L333", "L346", "L353", "L354"}
    /\ Raise(OtherException)
    /\ UNCHANGED sig_log

(* Line 389: the KeyboardInterrupt clause prints its notice. *)
InterruptNotice ==
    /\ pc = "L389"
    /\ pc' = "L391"
    /\ UNCHANGED <<kernel_state, total_cells, cells_executed, stream_buf, msg,
                   sigtstp, channels, control_out, exc, stops, warnings, received,
                   seeded, max_seen, ended_by, sig_log, last_call>>
    /\ UNCHANGED extra

(* Lines 391-392: the interrupt_request is built and sent. *)
SendInterrupt ==
    /\ pc = "L391"
    /\ control_out' = Append(control_out, InterruptRequest)
    /\ pc' = "L400"
    /\ UNCHANGED <<kernel_state, total_cells, cells_executed, stream_buf, msg,
                   sigtstp, channels, exc, stops, warnings, received, seeded,
                   max_seen, ended_by, sig_log, last_call>>
    /\ UNCHANGED extra

(* Lines 391-393: building or sending the request raises an Exception. *)
SendFails ==
    /\ pc = "L391"
    /\ Raise(OtherException)
    /\ UNCHANGED sig_log

(* Line 394: the warning is printed. *)
WarnSendFailed ==
    /\ pc = "L394"
    /\ warnings' = warnings + 1
    /\ pc' = "L400"
    /\ UNCHANGED <<kernel_state, total_cells, cells_executed, stream_buf, msg,
                   sigtstp, channels, control_out, exc, stops, received, seeded,
                   max_seen, ended_by, sig_log, last_call>>
    /\ UNCHANGED extra

(* Line 397: the _DetachOnly clause prints its notice. *)
DetachNotice ==
    /\ pc = "L397"
    /\ pc' = "L400"
    /\ UNCHANGED <<kernel_state, total_cells, cells_executed, stream_buf, msg,
                   sigtstp, channels, control_out, exc, stops, warnings, received,
                   seeded, max_seen, ended_by, sig_log, last_call>>
    /\ UNCHANGED extra

(* Line 400: the old SIGTSTP handler is restored. *)
RestoreHandler ==
    /\ pc = "L400"
    /\ sigtstp' = "old"
    /\ pc' = "L401"
    /\ UNCHANGED <<kernel_state, total_cells, cells_executed, stream_buf, msg,
                   channels, control_out, exc, stops, warnings, received, seeded,
                   max_seen, ended_by, sig_log, last_call>>
    /\ UNCHANGED extra

(* Line 401: client.stop_channels(), then main is left. *)
StopChannels ==
    /\ pc = "L401"
    /\ channels' = "stopped"
    /\ stops' = stops + 1
    /\ pc' = "left"
    /\ UNCHANGED <<kernel_state, total_cells, cells_executed, stream_buf, msg,
                   sigtstp, control_out, exc, warnings, received, seeded, max_seen,
                   ended_by, sig_log, last_call>>
    /\ UNCHANGED extra

(* SIGINT: Python's default handler raises KeyboardInterrupt in main. *)
SigInt ==
    /\ pc \in InMain
    /\ Len(sig_log) < MaxSignals
    /\ sig_log' = Append(sig_log, <<KeyboardInterrupt, Zone(pc)>>)
    /\ Raise(KeyboardInterrupt)

(* SIGTSTP while the handler of line 331 is installed raises _DetachOnly. *)
SigTstp ==
    /\ pc \in InMain
    /\ sigtstp = "detach"
    /\ Len(sig_log) < MaxSignals
    /\ sig_log' = Append(sig_log, <<DetachOnly, Zone(pc)>>)
    /\ Raise(DetachOnly)

Next ==
    \/ InstallHandler
    \/ StartChannels
    \/ EnterTry
    \/ EnterLive
    \/ Receive
    \/ Dispatch
    \/ Fail
    \/ InterruptNotice
    \/ SendInterrupt
    \/ SendFails
    \/ WarnSendFailed
    \/ DetachNotice
    \/ RestoreHandler
    \/ StopChannels
    \/ SigInt
    \/ SigTstp

Spec == Init /\ [][Next]_vars

-----------------------------------------------------------------------------
(* _process_stream on its own: one call with any pending buffer and any     *)
(* chunk, the returned buffer kept as line 370 keeps it.                     *)
InitStream ==
    /\ pc = "L240"
    /\ stream_buf \in Bufs
    /\ kernel_state = "idle"
    /\ total_cells = 0
    /\ cells_executed = 0
    /\ seeded = 0
    /\ msg = NoMsg
    /\ sigtstp = "old"
    /\ channels = "none"
    /\ control_out = <<>>
    /\ exc = NoException
    /\ stops = 0
    /\ warnings = 0
    /\ received = 0
    /\ max_seen = 0
    /\ ended_by = "none"
    /\ sig_log = <<>>
    /\ last_call = NoCall
    /\ Idle

CallProcessStream ==
    /\ pc = "L240"
    /\ ~last_call.called
    /\ \E text \in Texts :
          /\ last_call' = Call(stream_buf, text)
          /\ stream_buf' = _process_stream(stream_buf, text)[1]
    /\ UNCHANGED <<pc, kernel_state, total_cells, cells_executed, msg, sigtstp,
                   channels, control_out, exc, stops, warnings, received, seeded,
                   max_seen, ended_by, sig_log, extra>>

NextStream == CallProcessStream

SpecStream == InitStream /\ [][NextStream]_vars

(* Two stream messages in a row, lines 369-370 twice: the text of the        *)
(* second follows the text of the first, the buffer carried between them.    *)
CallProcessStreamAgain ==
    /\ pc = "L240"
    /\ last_call.called
    /\ ~prev_call.called
    /\ \E text \in Texts :
          /\ Len(last_call.text) + Len(text) <= MaxTextLen
          /\ last_call' = Call(stream_buf, text)
          /\ stream_buf' = _process_stream(stream_buf, text)[1]
    /\ prev_call' = last_call
    /\ UNCHANGED <<pc, kernel_state, total_cells, cells_executed, msg, sigtstp,
                   channels, control_out, exc, stops, warnings, received, seeded,
                   max_seen, ended_by, sig_log, errors, bar, server_files, located,
                   notebook, history, disk, job>>

NextSplit == CallProcessStream \/ CallProcessStreamAgain

SpecSplit == InitStream /\ [][NextSplit]_vars

(* Both together: the session, and _process_stream on arbitrary inputs.      *)
InitBoth == Init \/ InitStream

NextBoth == Next \/ NextStream

SpecBoth == InitBoth /\ [][NextBoth]_vars

-----------------------------------------------------------------------------
(* Observations used by the properties. *)
Sends == Len(control_out)

SigCount(sig) == Cardinality({k \in 1..Len(sig_log) : sig_log[k][1] = sig})

SigZones == {sig_log[k][2] : k \in 1..Len(sig_log)}

(* A step in which the received message is dispatched to its end. *)
DispatchStep == pc = "L354" /\ exc' = NoException /\ pc' \in {"L353", "L400"}

(* A step in which a signal is delivered. *)
SignalStep == Len(sig_log') > Len(sig_log)

-----------------------------------------------------------------------------
(* C1: once start_channels has run, main is never left without              *)
(* stop_channels having been executed, whatever ends the session and        *)
(* wherever a signal arrives.                                               *)
C1_TeardownOnEveryExit == (pc = "left" /\ channels # "none") => stops >= 1

(* C2: a signal delivered while the receive is blocked moves control to its  *)
(* own except clause; stop_channels never runs twice; and when every signal  *)
(* of the session was delivered in the receive loop or in an except clause,  *)
(* stop_channels has run exactly once when main is left, whichever signal    *)
(* came first and whether or not the send raised.                            *)
C2_TeardownExactlyOnce ==
    /\ [][(pc = "L353" /\ SignalStep) =>
             pc' = (IF sig_log'[Len(sig_log')][1] = KeyboardInterrupt
                    THEN "L389" ELSE "L397")]_vars
    /\ [](stops <= 1)
    /\ []((pc = "left" /\ sig_log # <<>> /\ SigZones \subseteq {"body", "handler"})
             => stops = 1)

C2_Witness ==
    /\ pc = "left"
    /\ Len(sig_log) = 2
    /\ sig_log[1][2] = "body"
    /\ sig_log[2][2] = "handler"
    /\ sig_log[1][1] # sig_log[2][1]
    /\ stops = 1

(* C3: dispatching a status message that carries "dead" leaves the loop at   *)
(* once; from then on nothing is received and no session state changes; and  *)
(* when main is left after it, with no signal delivered during the teardown, *)
(* stop_channels has run exactly once.                                       *)
C3_DeadEndsLoop ==
    /\ [][(DispatchStep /\ msg.msg_type = "status" /\ msg.execution_state = "dead")
             => (pc' = "L400" /\ kernel_state' = "dead" /\ ended_by' = "dead")]_vars
    /\ [][ended_by = "dead" =>
             /\ received' = received
             /\ kernel_state' = kernel_state
             /\ cells_executed' = cells_executed
             /\ stream_buf' = stream_buf
             /\ pc' \notin TryBody]_vars
    /\ []((pc = "left" /\ ended_by = "dead" /\ sig_log = <<>>) => stops = 1)

C3_Witness ==
    /\ pc = "left"
    /\ ended_by = "dead"
    /\ kernel_state = "dead"
    /\ received < MaxEvents
    /\ stops = 1

(* C4: when two cancel-and-detach signals were delivered in a session,       *)
(* exactly one interrupt_request has been sent when main is left.            *)
C4_DoubleInterruptOneSend ==
    (pc = "left" /\ SigCount(KeyboardInterrupt) >= 2 /\ SigCount(DetachOnly) = 0)
        => Sends = 1

(* C5: a session whose receive loop was ended by _DetachOnly never goes back *)
(* to the loop and never sends an interrupt_request.                         *)
C5_DetachOnlySendsNoCancel ==
    ended_by = DetachOnly => (Sends = 0 /\ pc \notin TryBody)

C5_Witness ==
    /\ pc = "left"
    /\ ended_by = DetachOnly
    /\ sig_log[1] = <<DetachOnly, "body">>
    /\ stops = 1
    /\ Sends = 0

(* C6: an interrupt_request with empty content is sent only from the         *)
(* KeyboardInterrupt clause, while the channels are running and before any   *)
(* stop_channels; a send that raises leads to the warning and on to the      *)
(* finally clause; and a session ended by one cancel-and-detach signal       *)
(* returns normally with the channels stopped once, having either sent the   *)
(* request or printed the warning.                                           *)
C6_CancelSendBestEffort ==
    /\ [][control_out' # control_out =>
             /\ control_out' = Append(control_out, InterruptRequest)
             /\ ended_by = KeyboardInterrupt
             /\ channels = "running"
             /\ stops = 0]_vars
    /\ [][(pc = "L391" /\ ~SignalStep /\ control_out' = control_out)
             => (pc' = "L394" /\ exc' = NoException)]_vars
    /\ [][(pc = "L394" /\ ~SignalStep)
             => (warnings' = warnings + 1 /\ pc' = "L400")]_vars
    /\ []((pc = "left" /\ sig_log = <<<<KeyboardInterrupt, "body">>>>)
             => /\ stops = 1
                /\ channels = "stopped"
                /\ exc = NoException
                /\ Sends + warnings = 1)

C6_Witness ==
    /\ pc = "left"
    /\ sig_log = <<<<KeyboardInterrupt, "body">>>>
    /\ warnings = 1
    /\ Sends = 0
    /\ stops = 1

(* C7: once a comm_close message has been dispatched the receive loop has    *)
(* ended: control is not back at the receive with comm_close as the last     *)
(* message processed.                                                        *)
C7_CloseTerminates == ~(pc = "L353" /\ msg.msg_type = "comm_close")

(* C8: cells_executed never decreases; after an execute_input with           *)
(* execution count n has been dispatched it is at least n; and it never      *)
(* exceeds the larger of its seeded value and the highest execution count    *)
(* seen so far.                                                              *)
C8_CompletedUnitsMonotone ==
    /\ [][cells_executed' >= cells_executed]_vars
    /\ []((pc = "L353" /\ msg.msg_type = "execute_input")
             => cells_executed >= OrZero(msg.execution_count))
    /\ [](cells_executed <= Max(seeded, max_seen))

C8_Witness ==
    /\ pc = "L353"
    /\ msg.msg_type = "execute_input"
    /\ OrZero(msg.execution_count) < max_seen
    /\ seeded < max_seen
    /\ cells_executed = max_seen

(* C9 as stated: _process_stream(buf, "") returns (buf, []) for any buf.     *)
C9_EmptyChunkIdentityAnyBuf ==
    (last_call.called /\ last_call.text = <<>>)
        => (last_call.new_buf = last_call.buf /\ last_call.completed = <<>>)

(* C9 amended: _process_stream(buf, "") returns (buf, []) for any buf that   *)
(* contains no terminator character.                                         *)
C9_EmptyChunkIdentity ==
    (last_call.called /\ last_call.text = <<>> /\ NoTerm(last_call.buf))
        => (last_call.new_buf = last_call.buf /\ last_call.completed = <<>>)

C9_Witness ==
    /\ last_call.called
    /\ last_call.text = <<>>
    /\ Len(last_call.buf) = MaxBufLen
    /\ NoTerm(last_call.buf)
    /\ stream_buf = last_call.buf

(* C10: the pending buffer returned by _process_stream holds no line-feed    *)
(* and no carriage-return, whatever buffer and chunk went in, and so does    *)
(* the buffer the caller holds after any sequence of calls.                  *)
C10_PendingHasNoTerminator ==
    /\ last_call.called => (NoTerm(last_call.new_buf) /\ NoTerm(stream_buf))
    /\ pc # "L240" => NoTerm(stream_buf)

C10_Witness ==
    /\ last_call.called
    /\ ~NoTerm(last_call.buf)
    /\ ~NoTerm(last_call.text)
    /\ last_call.new_buf # <<>>
    /\ last_call.completed # <<>>

-----------------------------------------------------------------------------
(* The helpers of main taken on their own leave the locals of the receive    *)
(* loop as they are before the session starts.                               *)
loop_locals == <<stream_buf, msg, sigtstp, channels, control_out, exc, stops,
                 warnings, received, seeded, max_seen, ended_by, sig_log, last_call>>

NotAttached ==
    /\ stream_buf = <<>>
    /\ msg = NoMsg
    /\ sigtstp = "old"
    /\ channels = "none"
    /\ control_out = <<>>
    /\ exc = NoException
    /\ stops = 0
    /\ warnings = 0
    /\ received = 0
    /\ seeded = 0
    /\ max_seen = 0
    /\ ended_by = "none"
    /\ sig_log = <<>>
    /\ last_call = NoCall

-----------------------------------------------------------------------------
(* _make_status_bar: the two segments of the progress bar.                   *)
MaxCount == 9

Min(a, b) == IF a <= b THEN a ELSE b

width == 20

(* "x" * n is the empty string for n <= 0. *)
Repeated(n) == Max(0, n)

FilledNoClamp(cells, total) ==
    IF total # 0 THEN (width * cells) \div total ELSE 0

Filled(cells, total) ==
    LET filled == IF total # 0 THEN (width * cells) \div total ELSE 0
    IN  Min(filled, width)

_make_status_bar(state, cells, total) ==
    [built    |-> TRUE,
     filled   |-> Repeated(Filled(cells, total)),
     unfilled |-> Repeated(width - Filled(cells, total))]

InitBar ==
    /\ pc = "L272"
    /\ kernel_state \in States
    /\ cells_executed \in 0..MaxCount
    /\ total_cells \in 0..MaxCount
    /\ NotAttached
    /\ Idle

MakeStatusBar ==
    /\ pc = "L272"
    /\ ~bar.built
    /\ bar' = _make_status_bar(kernel_state, cells_executed, total_cells)
    /\ UNCHANGED <<pc, kernel_state, total_cells, cells_executed, loop_locals,
                   errors, prev_call, server_files, located, notebook, history, disk, job>>

NextBar == MakeStatusBar

SpecBar == InitBar /\ [][NextBar]_vars

(* C13: for all counters total_cells >= 0 and cells_executed >= 0, the       *)
(* filled part of the bar is between 0 and width, and the filled and the     *)
(* unfilled part together are exactly width cells.                           *)
C13_ProgressClamp ==
    bar.built =>
        /\ 0 <= bar.filled
        /\ bar.filled <= width
        /\ bar.filled + bar.unfilled = width

(* 9 of 5: the bar is full and no wider. *)
C13_Witness ==
    /\ bar.built
    /\ cells_executed = 9
    /\ total_cells = 5
    /\ bar.filled = width
    /\ bar.unfilled = 0

-----------------------------------------------------------------------------
(* _find_kernel_connection_file: the server files found by glob, each with   *)
(* its modification time and with what querying it gives.                    *)
MaxServers == 2
MaxSessions == 1

(* A session of the sessions API: its path is the notebook's or another, and *)
(* for the notebook's, lines 61-65 either go through (with the state the     *)
(* kernel declares, if any) or raise (no "kernel", no "id", no connection    *)
(* file for the kernel id).                                                  *)
Sessions ==
    {[path |-> "other", resolves |-> TRUE, execution_state |-> Absent]}
    \cup [path : {"notebook"}, resolves : {TRUE}, execution_state : {Absent, "busy"}]
    \cup {[path |-> "notebook", resolves |-> FALSE, execution_state |-> Absent]}

(* A server file: reading or querying it raises, it has no url, or it        *)
(* answers with a list of sessions.                                          *)
ServerFiles ==
    [mtime : 1..MaxServers, answer : {"raises", "no url"}, sessions : {<<>>}]
    \cup [mtime : 1..MaxServers, answer : {"sessions"},
          sessions : SeqsUpTo(Sessions, MaxSessions)]

(* sorted(..., key=os.path.getmtime, reverse=True): the positions of the     *)
(* files, most recently modified first, equal times in their given order.    *)
Newest(files, left) ==
    CHOOSE k \in left :
        \A l \in left : \/ files[k].mtime > files[l].mtime
                        \/ (files[k].mtime = files[l].mtime /\ k <= l)

RECURSIVE SortedFrom(_, _)
SortedFrom(files, left) ==
    IF left = {} THEN <<>>
    ELSE LET k == Newest(files, left)
         IN  <<k>> \o SortedFrom(files, left \ {k})

Sorted(files) == SortedFrom(files, DOMAIN files)

(* The loop of line 56 over the sessions of server file k. *)
RECURSIVE ForSessions(_, _, _)
ForSessions(sessions, j, k) ==
    IF j > Len(sessions) THEN None
    ELSE IF sessions[j].path # "notebook" THEN ForSessions(sessions, j + 1, k)
    ELSE IF ~sessions[j].resolves THEN None
    ELSE [called  |-> TRUE,
          found   |-> TRUE,
          server  |-> k,
          session |-> j,
          state   |-> IF sessions[j].execution_state = Absent
                      THEN "idle" ELSE sessions[j].execution_state]

(* The try statement of line 38 for server file k: a result, or None for     *)
(* going on with the next file.                                              *)
TryServer(file, k) ==
    IF file.answer # "sessions" THEN None
    ELSE ForSessions(file.sessions, 1, k)

RECURSIVE ForServersNoCatch(_, _, _)
ForServersNoCatch(files, order, i) ==
    IF i > Len(order) THEN None
    ELSE IF files[order[i]].answer = "raises" THEN None
    ELSE LET r == TryServer(files[order[i]], order[i])
         IN  IF r.found THEN r ELSE ForServersNoCatch(files, order, i + 1)

RECURSIVE ForServers(_, _, _)
ForServers(files, order, i) ==
    IF i > Len(order) THEN None
    ELSE LET r == TryServer(files[order[i]], order[i])
         IN  IF r.found THEN r ELSE ForServers(files, order, i + 1)

_find_kernel_connection_file(files) == ForServers(files, Sorted(files), 1)

InitLocate ==
    /\ pc = "L15"
    /\ server_files \in SeqsUpTo(ServerFiles, MaxServers)
    /\ located = NotCalled
    /\ kernel_state = "idle"
    /\ total_cells = 0
    /\ cells_executed = 0
    /\ NotAttached
    /\ errors = 0
    /\ prev_call = NoCall
    /\ bar = NoBar
    /\ notebook = "unset"
    /\ history = "unset"
    /\ disk = <<>>
    /\ job = <<>>

FindKernelConnectionFile ==
    /\ pc = "L15"
    /\ ~located.called
    /\ located' = _find_kernel_connection_file(server_files)
    /\ UNCHANGED <<pc, kernel_state, total_cells, cells_executed, loop_locals,
                   errors, prev_call, bar, server_files, notebook, history, disk, job>>

NextLocate == FindKernelConnectionFile

SpecLocate == InitLocate /\ [][NextLocate]_vars

-----------------------------------------------------------------------------
(* The notebook file and its three readers: _notebook_cell_stats,            *)
(* _find_likely_executing_cell and _print_last_cell_output.                  *)
MaxCells == 2

(* A cell: a markdown cell, or a code cell with or without an execution      *)
(* count and with or without outputs.                                        *)
Cells ==
    {[cell_type |-> "markdown", execution_count |-> {}, outputs |-> FALSE]}
    \cup [cell_type : {"code"},
          execution_count : {{}} \cup {{n} : n \in 1..MaxEc},
          outputs : BOOLEAN]

(* The file: missing (open raises), not JSON (json.load raises), JSON whose  *)
(* top level is an array, JSON whose "cells" is not a list of objects, or a  *)
(* notebook.                                                                 *)
Notebooks ==
    [shape : {"missing", "invalid", "array", "bad cells"}, cells : {<<>>},
     language : {Absent}]
    \cup [shape : {"object"}, cells : SeqsUpTo(Cells, MaxCells),
          language : {Absent, "R"}]

Loads(nb) == nb.shape \notin {"missing", "invalid"}

(* [c for c in nb.get("cells", []) if c.get("cell_type") == "code"], as the  *)
(* positions of the code cells in the notebook.                              *)
CodeCells(nb) ==
    SelectSeq([i \in 1..Len(nb.cells) |-> i],
              LAMBDA i : nb.cells[i].cell_type = "code")

RECURSIVE MaxExecutionCount(_, _, _)
MaxExecutionCount(nb, cells, i) ==
    IF i > Len(cells) THEN 0
    ELSE Max(OrZero(nb.cells[cells[i]].execution_count), MaxExecutionCount(nb, cells, i + 1))

Lower(lang) == IF lang = "R" THEN "r" ELSE lang

_notebook_cell_stats(nb) ==
    IF nb.shape # "object"
    THEN [called |-> TRUE, total |-> 0, max_ec |-> 0, lang |-> "python"]
    ELSE [called |-> TRUE,
          total  |-> Len(CodeCells(nb)),
          max_ec |-> MaxExecutionCount(nb, CodeCells(nb), 1),
          lang   |-> IF nb.language = Absent THEN "python" ELSE Lower(nb.language)]

NoCell == [status |-> "none", index |-> 0]
Raised == [status |-> "raised", index |-> 0]
Cell(i) == [status |-> "cell", index |-> i]

(* max(in_progress, key=...): the first cell of the highest count. *)
RECURSIVE MaxByCount(_, _, _, _)
MaxByCount(nb, cells, i, best) ==
    IF i > Len(cells) THEN best
    ELSE IF OrZero(nb.cells[cells[i]].execution_count)
              > OrZero(nb.cells[best].execution_count)
    THEN MaxByCount(nb, cells, i + 1, cells[i])
    ELSE MaxByCount(nb, cells, i + 1, best)

(* Lines 158-161, with the indices of Python (-1 when no cell has outputs). *)
RECURSIVE LastCompleteIdx(_, _, _, _)
LastCompleteIdx(nb, cells, i, last_complete_idx) ==
    IF i > Len(cells) THEN last_complete_idx
    ELSE IF nb.cells[cells[i]].outputs
    THEN LastCompleteIdx(nb, cells, i + 1, i - 1)
    ELSE LastCompleteIdx(nb, cells, i + 1, last_complete_idx)

StrategyB(nb, cells) ==
    LET last_complete_idx == LastCompleteIdx(nb, cells, 1, -1)
    IN  IF last_complete_idx + 1 < Len(cells)
        THEN Cell(cells[last_complete_idx + 2])
        ELSE NoCell

StrategyALowest(nb, in_progress) == Cell(in_progress[1])

StrategyA(nb, in_progress) ==
    Cell(MaxByCount(nb, in_progress, 1, in_progress[1]))

_find_likely_executing_cell(nb) ==
    IF ~Loads(nb) THEN NoCell
    ELSE IF nb.shape # "object" THEN Raised
    ELSE LET cells == CodeCells(nb)
             in_progress ==
                 SelectSeq(cells, LAMBDA i : /\ OrZero(nb.cells[i].execution_count) # 0
                                             /\ ~nb.cells[i].outputs)
         IN  IF in_progress # <<>> THEN StrategyA(nb, in_progress)
             ELSE StrategyB(nb, cells)

(* Lines 188-191: the last code cell with outputs (0 if none). *)
RECURSIVE LastCellWithOutput(_, _, _)
LastCellWithOutput(nb, i, last) ==
    IF i > Len(nb.cells) THEN last
    ELSE IF nb.cells[i].cell_type = "code" /\ nb.cells[i].outputs
    THEN LastCellWithOutput(nb, i + 1, i)
    ELSE LastCellWithOutput(nb, i + 1, last)

NotPrinted == [status |-> "not called", last |-> 0, executing |-> NoCell]

_print_last_cell_output(nb, is_busy) ==
    IF ~Loads(nb) THEN [status |-> "returned", last |-> 0, executing |-> NoCell]
    ELSE IF nb.shape # "object" THEN [status |-> "raised", last |-> 0, executing |-> NoCell]
    ELSE [status    |-> "returned",
          last      |-> LastCellWithOutput(nb, 1, 0),
          executing |-> IF is_busy THEN _find_likely_executing_cell(nb) ELSE NoCell]

NoHistory ==
    [stats   |-> [called |-> FALSE, total |-> 0, max_ec |-> 0, lang |-> "python"],
     likely  |-> [status |-> "not called", index |-> 0],
     printed |-> NotPrinted]

InitHistory ==
    /\ pc = "L316"
    /\ notebook \in Notebooks
    /\ history = NoHistory
    /\ kernel_state \in {"idle", "busy"}
    /\ total_cells = 0
    /\ cells_executed = 0
    /\ NotAttached
    /\ errors = 0
    /\ prev_call = NoCall
    /\ bar = NoBar
    /\ server_files = <<>>
    /\ located = NotCalled
    /\ disk = <<>>
    /\ job = <<>>

(* Lines 316-318 of main. *)
NotebookCellStats ==
    /\ pc = "L316"
    /\ history' = [history EXCEPT !.stats = _notebook_cell_stats(notebook)]
    /\ total_cells' = history'.stats.total
    /\ cells_executed' = SeedExecuted(kernel_state, history'.stats.max_ec)
    /\ pc' = "L320"
    /\ UNCHANGED <<kernel_state, loop_locals, errors, prev_call, bar, server_files,
                   located, notebook, disk, job>>

(* Line 320 of main: on return the session goes on to attach, and an         *)
(* exception leaves main.                                                    *)
PrintLastCellOutput ==
    /\ pc = "L320"
    /\ history' = [history EXCEPT
                      !.printed = _print_last_cell_output(notebook, kernel_state = "busy")]
    /\ pc' = IF history'.printed.status = "raised" THEN "left" ELSE "L321"
    /\ UNCHANGED <<kernel_state, total_cells, cells_executed, loop_locals, errors,
                   prev_call, bar, server_files, located, notebook, disk, job>>

(* _find_likely_executing_cell on its own. *)
FindLikelyExecutingCell ==
    /\ pc \in {"L316", "L320", "L321", "left"}
    /\ history.likely.status = "not called"
    /\ history' = [history EXCEPT !.likely = _find_likely_executing_cell(notebook)]
    /\ UNCHANGED <<pc, kernel_state, total_cells, cells_executed, loop_locals, errors,
                   prev_call, bar, server_files, located, notebook, disk, job>>

NextHistory == NotebookCellStats \/ PrintLastCellOutput \/ FindLikelyExecutingCell

SpecHistory == InitHistory /\ [][NextHistory]_vars

-----------------------------------------------------------------------------
(* compress_h5ad.main: the input file is read, made sparse, written with     *)
(* the chosen compression, and copied.                                       *)
MaxData == 2

Compressions == {"gzip", "lzf", "zstd"}

NoFile == [exists |-> FALSE, data |-> 0, sparse |-> FALSE, compression |-> "none"]

H5ad(d, s, c) == [exists |-> TRUE, data |-> d, sparse |-> s, compression |-> c]

H5adFiles ==
    {H5ad(d, s, c) : d \in 1..MaxData, s \in BOOLEAN, c \in Compressions \cup {"none"}}

Paths == {"a.h5ad", "b.h5ad", "tmp"}

NoAdata == [data |-> 0, sparse |-> FALSE]

(* What compress_h5ad leaves alone. *)
attach == <<kernel_state, total_cells, cells_executed, loop_locals, errors,
            prev_call, bar, server_files, located, notebook, history>>

InitCompress ==
    /\ pc = "h5ad.L19"
    /\ \E original \in H5adFiles, other \in H5adFiles \cup {NoFile},
          output_file \in {Absent, "a.h5ad", "b.h5ad"}, compression \in Compressions :
          /\ disk = [p \in Paths |-> IF p = "a.h5ad" THEN original
                                     ELSE IF p = "b.h5ad" THEN other ELSE NoFile]
          /\ job = [input_file       |-> "a.h5ad",
                    output_file      |-> output_file,
                    compression      |-> compression,
                    original         |-> original,
                    adata            |-> NoAdata,
                    is_same          |-> FALSE,
                    temp_output_file |-> Absent]
    /\ kernel_state = "idle"
    /\ total_cells = 0
    /\ cells_executed = 0
    /\ NotAttached
    /\ errors = 0
    /\ prev_call = NoCall
    /\ bar = NoBar
    /\ server_files = <<>>
    /\ located = NotCalled
    /\ notebook = "unset"
    /\ history = "unset"

(* Line 19: adata = ad.read_h5ad(input_file). *)
ReadH5ad ==
    /\ pc = "h5ad.L19"
    /\ job' = [job EXCEPT !.adata = [data   |-> disk[job.input_file].data,
                                     sparse |-> disk[job.input_file].sparse]]
    /\ pc' = "h5ad.L27"
    /\ UNCHANGED <<disk, attach>>

(* Lines 27-52: every dense matrix becomes a sparse one. *)
ToSparse ==
    /\ pc = "h5ad.L27"
    /\ job' = [job EXCEPT !.adata.sparse = TRUE]
    /\ pc' = "h5ad.L59"
    /\ UNCHANGED <<disk, attach>>

(* Lines 59-61: is_same, the temporary file, temp_output_file. *)
OpenTemp ==
    /\ pc = "h5ad.L59"
    /\ LET is_same == job.output_file = Absent \/ job.input_file = job.output_file
       IN  job' = [job EXCEPT !.is_same = is_same,
                              !.temp_output_file =
                                  IF is_same THEN "tmp" ELSE job.output_file]
    /\ disk' = [disk EXCEPT !["tmp"] = H5ad(0, FALSE, "none")]
    /\ pc' = "h5ad.L62"
    /\ UNCHANGED attach

(* Lines 62-69: adata.write_h5ad(temp_output_file, compression). *)
WriteH5ad ==
    /\ pc = "h5ad.L62"
    /\ disk' = [disk EXCEPT ![job.temp_output_file] =
                   H5ad(job.adata.data, job.adata.sparse, job.compression)]
    /\ pc' = "h5ad.L72"
    /\ UNCHANGED <<job, attach>>

(* Lines 72-76: os.remove(input_file) when is_same, and in both branches     *)
(* shutil.copy(temp_output_file, input_file).                                *)
CopyToInput ==
    /\ pc = "h5ad.L72"
    /\ disk' = [disk EXCEPT ![job.input_file] = disk[job.temp_output_file]]
    /\ pc' = "h5ad.L77"
    /\ UNCHANGED <<job, attach>>

(* The end of the with statement of line 60: the temporary file is deleted. *)
CloseTemp ==
    /\ pc = "h5ad.L77"
    /\ disk' = [disk EXCEPT !["tmp"] = NoFile]
    /\ pc' = "h5ad.L78"
    /\ UNCHANGED <<job, attach>>

NextCompress ==
    ReadH5ad \/ ToSparse \/ OpenTemp \/ WriteH5ad \/ CopyToInput \/ CloseTemp

SpecCompress == InitCompress /\ [][NextCompress]_vars

-----------------------------------------------------------------------------
(* The Stream Reassembler as specified: an accumulator seeded with the       *)
(* pending buffer, and only the incoming chunk scanned.                      *)
RECURSIVE ReassembleFrom(_, _, _, _)
ReassembleFrom(chunk, i, current, completed) ==
    IF i > Len(chunk) THEN <<current, completed>>
    ELSE IF chunk[i] = LF
    THEN ReassembleFrom(chunk, i + 1, <<>>, Append(completed, current \o <<LF>>))
    ELSE IF chunk[i] = CR /\ i < Len(chunk) /\ chunk[i + 1] = LF
    THEN ReassembleFrom(chunk, i + 2, <<>>, Append(completed, current \o <<LF>>))
    ELSE IF chunk[i] = CR
    THEN ReassembleFrom(chunk, i + 1, <<>>, completed)
    ELSE ReassembleFrom(chunk, i + 1, current \o <<chunk[i]>>, completed)

reassemble(pendingBuffer, incomingChunk) ==
    ReassembleFrom(incomingChunk, 1, pendingBuffer, <<>>)

(* C11 as stated: for every pending buffer and chunk, _process_stream        *)
(* returns what the specified algorithm returns.                             *)
C11_MatchesSpecifiedAlgorithmAnyBuf ==
    last_call.called =>
        <<last_call.new_buf, last_call.completed>>
            = reassemble(last_call.buf, last_call.text)

(* C11 amended: for every pending buffer that holds no terminator and every  *)
(* chunk, _process_stream returns what the specified algorithm returns.      *)
C11_MatchesSpecifiedAlgorithm ==
    (last_call.called /\ NoTerm(last_call.buf)) =>
        <<last_call.new_buf, last_call.completed>>
            = reassemble(last_call.buf, last_call.text)

(* reassemble("", "a\r\nb") = ("b", ["a\n"]). *)
C11_Witness ==
    /\ last_call.called
    /\ last_call.buf = <<>>
    /\ last_call.text = <<"a", CR, LF, "b">>
    /\ last_call.new_buf = <<"b">>
    /\ last_call.completed = << <<"a", LF>> >>

(* C12 as stated: for any pending buffer p and any text x free of            *)
(* terminators, _process_stream(p, "\r" + x) = (x, []).                      *)
C12_BareCrOverwritesAnyBuf ==
    (/\ last_call.called
     /\ last_call.text # <<>>
     /\ last_call.text[1] = CR
     /\ NoTerm(Tail(last_call.text)))
        => (last_call.new_buf = Tail(last_call.text) /\ last_call.completed = <<>>)

(* C12 amended: the same for any pending buffer p that holds no line-feed.   *)
C12_BareCrOverwrites ==
    (/\ last_call.called
     /\ \A k \in 1..Len(last_call.buf) : last_call.buf[k] # LF
     /\ last_call.text # <<>>
     /\ last_call.text[1] = CR
     /\ NoTerm(Tail(last_call.text)))
        => (last_call.new_buf = Tail(last_call.text) /\ last_call.completed = <<>>)

(* _process_stream("ab", "\rba") = ("ba", []). *)
C12_Witness ==
    /\ last_call.called
    /\ last_call.buf = <<"a", "b">>
    /\ last_call.text = <<CR, "b", "a">>
    /\ last_call.new_buf = <<"b", "a">>
    /\ last_call.completed = <<>>

-----------------------------------------------------------------------------
(* Server file k is tried before server file l. *)
TriedBefore(k, l) ==
    \/ server_files[k].mtime > server_files[l].mtime
    \/ (server_files[k].mtime = server_files[l].mtime /\ k < l)

(* Server file k answers and lists a session of the notebook (session j). *)
ListsMatch(k, j) ==
    /\ server_files[k].answer = "sessions"
    /\ j \in DOMAIN server_files[k].sessions
    /\ server_files[k].sessions[j].path = "notebook"

FirstMatch(k, j) ==
    /\ ListsMatch(k, j)
    /\ \A i \in 1..(j - 1) : ~ListsMatch(k, i)

Declared(k, j) ==
    IF server_files[k].sessions[j].execution_state = Absent
    THEN "idle" ELSE server_files[k].sessions[j].execution_state

Yields(k, j) == FirstMatch(k, j) /\ server_files[k].sessions[j].resolves

-----------------------------------------------------------------------------
(* Code cell i of the notebook. *)
IsCode(i) == i \in DOMAIN notebook.cells /\ notebook.cells[i].cell_type = "code"

(* Code cell i has an execution count and no outputs. *)
InProgress(i) ==
    /\ IsCode(i)
    /\ notebook.cells[i].execution_count # {}
    /\ ~notebook.cells[i].outputs

HasOutputs(i) == IsCode(i) /\ notebook.cells[i].outputs

(* Code cell i is the last code cell with outputs. *)
LastComplete(i) ==
    /\ HasOutputs(i)
    /\ \A j \in DOMAIN notebook.cells : HasOutputs(j) => j <= i

(* Code cell j is the code cell that follows cell i. *)
NextCode(i, j) ==
    /\ IsCode(j)
    /\ j > i
    /\ \A k \in DOMAIN notebook.cells : (IsCode(k) /\ k > i) => j <= k

(* The choice of strategy A: a cell in progress of the highest count. *)
ChosenInProgress ==
    /\ history.likely.status = "cell"
    /\ InProgress(history.likely.index)
    /\ \A j \in DOMAIN notebook.cells :
          InProgress(j) => OrZero(notebook.cells[j].execution_count)
                              <= OrZero(notebook.cells[history.likely.index].execution_count)

(* C15 as stated: (a) if a code cell has an execution count and no outputs,  *)
(* the one of the highest count is returned; (b) otherwise the code cell     *)
(* that follows the last code cell with outputs, if there is one; otherwise  *)
(* None.                                                                     *)
C15_LikelyCellPrecedenceElseNone ==
    (notebook.shape = "object" /\ history.likely.status # "not called") =>
        IF \E i \in DOMAIN notebook.cells : InProgress(i)
        THEN ChosenInProgress
        ELSE IF \E i, j \in DOMAIN notebook.cells : LastComplete(i) /\ NextCode(i, j)
        THEN /\ history.likely.status = "cell"
             /\ \E i \in DOMAIN notebook.cells :
                   LastComplete(i) /\ NextCode(i, history.likely.index)
        ELSE history.likely = NoCell

(* C15 amended: (a) as stated; (b) otherwise the code cell that follows the  *)
(* last code cell with outputs, if there is one; (c) otherwise, when no code *)
(* cell has outputs, the first code cell, if there is one; otherwise None.   *)
C15_LikelyCellPrecedence ==
    (notebook.shape = "object" /\ history.likely.status # "not called") =>
        IF \E i \in DOMAIN notebook.cells : InProgress(i)
        THEN ChosenInProgress
        ELSE IF \E i, j \in DOMAIN notebook.cells : LastComplete(i) /\ NextCode(i, j)
        THEN /\ history.likely.status = "cell"
             /\ \E i \in DOMAIN notebook.cells :
                   LastComplete(i) /\ NextCode(i, history.likely.index)
        ELSE IF (\E j \in DOMAIN notebook.cells : IsCode(j))
                /\ ~(\E i \in DOMAIN notebook.cells : HasOutputs(i))
        THEN /\ history.likely.status = "cell"
             /\ NextCode(0, history.likely.index)
        ELSE history.likely = NoCell

(* Two cells in progress, the first of the higher count: the first one is    *)
(* returned, not the one further down.                                       *)
C15_Witness ==
    /\ notebook.shape = "object"
    /\ Len(notebook.cells) = 2
    /\ InProgress(1)
    /\ InProgress(2)
    /\ notebook.cells[1].execution_count = {2}
    /\ notebook.cells[2].execution_count = {1}
    /\ history.likely = Cell(1)

(* C16: for every notebook file that is missing, is not JSON, or is JSON of  *)
(* an unexpected shape, each of the three readers returns its defaults       *)
(* (0 cells, 0 executed, "python", no last cell, no likely cell) without     *)
(* raising, and main goes on to attach.                                      *)
C16_MalformedYieldsDefaults ==
    notebook.shape # "object" =>
        /\ history.stats.called =>
              (history.stats.total = 0 /\ history.stats.max_ec = 0
               /\ history.stats.lang = "python")
        /\ history.likely.status # "not called" => history.likely = NoCell
        /\ history.printed.status # "not called" =>
              (history.printed.status = "returned" /\ history.printed.last = 0
               /\ history.printed.executing = NoCell)
        /\ pc # "left"

-----------------------------------------------------------------------------
-----------------------------------------------------------------------------
(* C18: kernel_state changes only when a status message is dispatched,       *)
(* cells_executed only when an execute_input message is dispatched,          *)
(* total_cells never; dispatching a clear_output message leaves the two      *)
(* counters and kernel_state as they are; and stream_buf changes only when   *)
(* a stream message is dispatched.                                           *)
C18_DispatchFrame ==
    [][/\ kernel_state' # kernel_state => (DispatchStep /\ msg.msg_type = "status")
       /\ cells_executed' # cells_executed
             => (DispatchStep /\ msg.msg_type = "execute_input")
       /\ total_cells' = total_cells
       /\ (DispatchStep /\ msg.msg_type = "clear_output")
             => /\ cells_executed' = cells_executed
                /\ total_cells' = total_cells
                /\ kernel_state' = kernel_state
       /\ stream_buf' # stream_buf => (DispatchStep /\ msg.msg_type = "stream")]_vars

(* An execute_input message raised cells_executed, and the clear_output      *)
(* message dispatched after it left it there.                                *)
C18_Witness ==
    /\ pc = "L353"
    /\ received = 2
    /\ msg.msg_type = "clear_output"
    /\ cells_executed > seeded
    /\ cells_executed = max_seen

-----------------------------------------------------------------------------
(* C19: for a pending buffer without terminator, any text t and any split    *)
(* t = x + y, the call on x followed by the call on y, the buffer carried    *)
(* between them, gives the completed lines and the final buffer of the one   *)
(* call on t.                                                                *)
C19_ChunkSplitInvariance ==
    (prev_call.called /\ NoTerm(prev_call.buf)) =>
        LET whole == _process_stream(prev_call.buf, prev_call.text \o last_call.text)
        IN  /\ last_call.new_buf = whole[1]
            /\ prev_call.completed \o last_call.completed = whole[2]

-----------------------------------------------------------------------------
(* C20: whatever signals are delivered and wherever, at most one             *)
(* interrupt_request is ever sent on the control channel, and none is sent   *)
(* once stop_channels has been executed.                                     *)
C20_AtMostOneCancel ==
    /\ [](Sends <= 1)
    /\ [][control_out' # control_out => stops = 0]_vars

(* A cancel-and-detach and a detach-only signal were both delivered, and     *)
(* one interrupt_request went out.                                           *)
C20_Witness ==
    /\ pc = "left"
    /\ SigCount(KeyboardInterrupt) >= 1
    /\ SigCount(DetachOnly) >= 1
    /\ Sends = 1

-----------------------------------------------------------------------------
(* C21: whenever main is at the get_iopub_msg call of line 353, about to     *)
(* call it or blocked in it, kernel_state is not "dead", be it the state     *)
(* declared by the sessions API at attach or one set by a status message.    *)
C21_NoReceiveWhenDead == pc = "L353" => kernel_state # "dead"

-----------------------------------------------------------------------------
(* C22: when compress_h5ad has finished with an output_file given and        *)
(* different from input_file, output_file holds the compressed result and    *)
(* the input file holds what it held before; when output_file is omitted or  *)
(* equal to input_file, the input file holds the compressed result.          *)
C22_OutputGivenLeavesInput ==
    pc = "h5ad.L78" =>
        LET result == H5ad(job.original.data, TRUE, job.compression)
        IN  IF job.output_file \notin {Absent, job.input_file}
            THEN /\ disk[job.output_file] = result
                 /\ disk[job.input_file] = job.original
            ELSE disk[job.input_file] = result

====
